---- MODULE Spec2Model ----
(***************************************************************************)
(* A model of include/base64.hpp: base64_encode, base64_decode, the        *)
(* chunked detail::stream_encoder and the two file encoders.               *)
(*                                                                         *)
(* Bytes and characters are the integers 0..255 (the value of the byte,    *)
(* the code of the character); a text or a byte sequence is a sequence of  *)
(* them.  C++ indices are 0-based, so chars[k] of the code is chars[k+1]   *)
(* here.  A result (std::expected) is a record [ok, value, error].         *)
(***************************************************************************)
EXTENDS Integers, Sequences, FiniteSets, TLC

(***************************************************************************)
(* Bounds of the model.                                                    *)
(***************************************************************************)
MaxLen == 4            \* longest enumerated input of base64_encode
MaxTextLen == 8        \* longest enumerated input of base64_decode
MaxStreamLen == 6      \* longest byte sequence fed to a stream_encoder
MaxEmptyChunks == 1    \* empty chunks fed to one stream_encoder
MaxFileLen == 4        \* longest enumerated file content
MaxChunkSize == 3      \* largest enumerated chunk_size argument
SmallMaxSize == 2      \* a max_size argument that some files exceed

ByteVals == {0, 97, 255}
StreamByteVals == {1, 254}

(***************************************************************************)
(* Program constants.                                                      *)
(***************************************************************************)
PadChar == 61          \* '='
Sentinel == 255        \* 0xFF, "no 6-bit value" in the decode table
default_max_size == 104857600

RECURSIVE SeqsUpTo(_, _)
SeqsUpTo(S, n) ==
    IF n = 0 THEN {<<>>}
    ELSE LET shorter == SeqsUpTo(S, n - 1)
         IN  shorter \cup {Append(s, x) : s \in {t \in shorter : Len(t) = n - 1}, x \in S}

Range(s) == {s[k] : k \in 1..Len(s)}

(***************************************************************************)
(* The alphabets.                                                          *)
(***************************************************************************)
base64_chars ==
    [k \in 1..64 |-> IF k <= 26 THEN 64 + k       \* 'A'..'Z'
                     ELSE IF k <= 52 THEN 70 + k  \* 'a'..'z'
                     ELSE IF k <= 62 THEN k - 5   \* '0'..'9'
                     ELSE IF k = 63 THEN 43       \* '+'
                     ELSE 47]                     \* '/'

base64_chars_url_safe ==
    [k \in 1..64 |-> IF k = 63 THEN 45            \* '-'
                     ELSE IF k = 64 THEN 95       \* '_'
                     ELSE base64_chars[k]]

\* Caller-supplied alphabets: a 64-symbol one that repeats a symbol, the two
\* of the tests ("ABC", and the standard one with '=' for 'a'), and a short
\* one that holds '='.
chars_repeated == [base64_chars EXCEPT ![2] = 65]
chars_short == <<65, 66, 67>>
chars_with_pad == [base64_chars EXCEPT ![27] = PadChar]
chars_short_with_pad == <<65, PadChar, 67>>

Alphabets ==
    {base64_chars, base64_chars_url_safe, chars_repeated,
     chars_short, chars_with_pad, chars_short_with_pad}

(***************************************************************************)
(* std::expected<T, std::error_code>.                                      *)
(***************************************************************************)
Expected(v) == [ok |-> TRUE, value |-> v, error |-> "success"]
make_unexpected(e) == [ok |-> FALSE, value |-> <<>>, error |-> e]

(***************************************************************************)
(* uint32_t arithmetic.  The code shifts left only 8-bit values, by at     *)
(* most 18 bits: no product reaches 2^26, so none wraps at 2^32.           *)
(***************************************************************************)
RECURSIVE BitAnd(_, _)
BitAnd(a, b) ==
    IF a = 0 \/ b = 0 THEN 0
    ELSE (a % 2) * (b % 2) + 2 * BitAnd(a \div 2, b \div 2)

RECURSIVE BitOr(_, _)
BitOr(a, b) ==
    IF a = 0 THEN b
    ELSE IF b = 0 THEN a
    ELSE (IF a % 2 = 1 \/ b % 2 = 1 THEN 1 ELSE 0) + 2 * BitOr(a \div 2, b \div 2)

Shl(x, n) == x * 2^n
Shr(x, n) == x \div 2^n

validate_charset(chars) == Len(chars) = 64 /\ PadChar \notin Range(chars)

(***************************************************************************)
(* base64_encode.                                                          *)
(***************************************************************************)
\* a plausible slip: the second byte is or-ed in without its shift
encode_pack_unshifted(input, i) ==
    LET c0 == Shl(input[i + 1], 16)
        c1 == IF i + 1 < Len(input) THEN BitOr(c0, input[i + 2]) ELSE c0
    IN  IF i + 2 < Len(input) THEN BitOr(c1, input[i + 3]) ELSE c1

\* the 24-bit chunk of the group that starts at input[i]
encode_pack(input, i) ==
    LET c0 == Shl(input[i + 1], 16)
        c1 == IF i + 1 < Len(input) THEN BitOr(c0, Shl(input[i + 2], 8)) ELSE c0
    IN  IF i + 2 < Len(input) THEN BitOr(c1, input[i + 3]) ELSE c1

\* a plausible slip: a final partial group is not padded
encode_symbols_unpadded(chunk, chars, input, i) ==
    <<chars[Shr(BitAnd(chunk, 16515072), 18) + 1],
      chars[Shr(BitAnd(chunk, 258048), 12) + 1]>>
        \o (IF i + 1 < Len(input) THEN <<chars[Shr(BitAnd(chunk, 4032), 6) + 1]>> ELSE <<>>)
        \o (IF i + 2 < Len(input) THEN <<chars[BitAnd(chunk, 63) + 1]>> ELSE <<>>)

\* a plausible slip: the 3rd symbol is tested like the 4th
encode_symbols_overpadded(chunk, chars, input, i) ==
    <<chars[Shr(BitAnd(chunk, 16515072), 18) + 1],
      chars[Shr(BitAnd(chunk, 258048), 12) + 1],
      IF i + 2 < Len(input) THEN chars[Shr(BitAnd(chunk, 4032), 6) + 1] ELSE PadChar,
      IF i + 2 < Len(input) THEN chars[BitAnd(chunk, 63) + 1] ELSE PadChar>>

\* the four symbols appended to result for the group that starts at input[i]
encode_symbols(chunk, chars, input, i) ==
    <<chars[Shr(BitAnd(chunk, 16515072), 18) + 1],
      chars[Shr(BitAnd(chunk, 258048), 12) + 1],
      IF i + 1 < Len(input) THEN chars[Shr(BitAnd(chunk, 4032), 6) + 1] ELSE PadChar,
      IF i + 2 < Len(input) THEN chars[BitAnd(chunk, 63) + 1] ELSE PadChar>>

RECURSIVE encode_loop(_, _, _, _)
encode_loop(input, chars, i, result) ==
    IF ~(i < Len(input)) THEN result
    ELSE encode_loop(input, chars, i + 3,
                     result \o encode_symbols(encode_pack(input, i), chars, input, i))

\* a plausible slip: the alphabet is checked before the empty input
base64_encode_charset_first(input, chars) ==
    IF ~validate_charset(chars)
    THEN make_unexpected(
             IF Len(chars) # 64 THEN "invalid_character_set_length"
             ELSE "invalid_character_set_padding_char_used")
    ELSE IF Len(input) = 0 THEN make_unexpected("empty_data")
    ELSE Expected(encode_loop(input, chars, 0, <<>>))

\* a plausible slip: the '=' of the alphabet is looked for before its length
base64_encode_padding_first(input, chars) ==
    IF Len(input) = 0 THEN make_unexpected("empty_data")
    ELSE IF ~validate_charset(chars)
    THEN make_unexpected(
             IF Len(input) = 0 THEN "empty_data"
             ELSE IF PadChar \in Range(chars) THEN "invalid_character_set_padding_char_used"
             ELSE "invalid_character_set_length")
    ELSE Expected(encode_loop(input, chars, 0, <<>>))

base64_encode(input, chars) ==
    IF Len(input) = 0 THEN make_unexpected("empty_data")
    ELSE IF ~validate_charset(chars)
    THEN make_unexpected(
             IF Len(input) = 0 THEN "empty_data"
             ELSE IF Len(chars) # 64 THEN "invalid_character_set_length"
             ELSE "invalid_character_set_padding_char_used")
    ELSE Expected(encode_loop(input, chars, 0, <<>>))

(***************************************************************************)
(* base64_decode.                                                          *)
(***************************************************************************)
RECURSIVE fill_table(_, _, _)
fill_table(table, chars, i) ==
    IF ~(i < 64) THEN table
    ELSE fill_table([table EXCEPT ![chars[i + 1]] = i], chars, i + 1)

decode_table(chars) ==
    [fill_table([b \in 0..255 |-> Sentinel], chars, 0) EXCEPT ![PadChar] = 0]

\* a plausible slip: the 3rd byte is dropped on a '=' in the 3rd position,
\* not in the 4th
RECURSIVE decode_loop_third_tested_twice(_, _, _, _)
decode_loop_third_tested_twice(input, table, i, result) ==
    IF ~(i < Len(input)) THEN Expected(result)
    ELSE LET v0 == table[input[i + 1]]
             v1 == table[input[i + 2]]
             v2 == table[input[i + 3]]
             v3 == table[input[i + 4]]
         IN  IF \/ v0 = Sentinel
                \/ v1 = Sentinel
                \/ (input[i + 3] # PadChar /\ v2 = Sentinel)
                \/ (input[i + 4] # PadChar /\ v3 = Sentinel)
             THEN make_unexpected("invalid_character")
             ELSE LET chunk == BitOr(BitOr(BitOr(Shl(v0, 18), Shl(v1, 12)), Shl(v2, 6)), v3)
                      b0 == <<BitAnd(Shr(chunk, 16), 255)>>
                      b1 == IF input[i + 3] # PadChar
                            THEN <<BitAnd(Shr(chunk, 8), 255)>> ELSE <<>>
                      b2 == IF input[i + 3] # PadChar
                            THEN <<BitAnd(chunk, 255)>> ELSE <<>>
                  IN  decode_loop_third_tested_twice(input, table, i + 4,
                                                     result \o b0 \o b1 \o b2)

RECURSIVE decode_loop(_, _, _, _)
decode_loop(input, table, i, result) ==
    IF ~(i < Len(input)) THEN Expected(result)
    ELSE LET v0 == table[input[i + 1]]
             v1 == table[input[i + 2]]
             v2 == table[input[i + 3]]
             v3 == table[input[i + 4]]
         IN  IF \/ v0 = Sentinel
                \/ v1 = Sentinel
                \/ (input[i + 3] # PadChar /\ v2 = Sentinel)
                \/ (input[i + 4] # PadChar /\ v3 = Sentinel)
             THEN make_unexpected("invalid_character")
             ELSE LET chunk == BitOr(BitOr(BitOr(Shl(v0, 18), Shl(v1, 12)), Shl(v2, 6)), v3)
                      b0 == <<BitAnd(Shr(chunk, 16), 255)>>
                      b1 == IF input[i + 3] # PadChar
                            THEN <<BitAnd(Shr(chunk, 8), 255)>> ELSE <<>>
                      b2 == IF input[i + 4] # PadChar
                            THEN <<BitAnd(chunk, 255)>> ELSE <<>>
                  IN  decode_loop(input, table, i + 4, result \o b0 \o b1 \o b2)

\* a plausible slip: the length of the input is checked before the alphabet
base64_decode_length_first(input, chars) ==
    IF Len(input) = 0 THEN make_unexpected("empty_data")
    ELSE IF Len(input) % 4 # 0 THEN make_unexpected("invalid_length")
    ELSE IF ~validate_charset(chars)
    THEN make_unexpected(
             IF Len(chars) # 64 THEN "invalid_character_set_length"
             ELSE "invalid_character_set_padding_char_used")
    ELSE decode_loop(input, decode_table(chars), 0, <<>>)

base64_decode(input, chars) ==
    IF Len(input) = 0 THEN make_unexpected("empty_data")
    ELSE IF ~validate_charset(chars)
    THEN make_unexpected(
             IF Len(chars) # 64 THEN "invalid_character_set_length"
             ELSE "invalid_character_set_padding_char_used")
    ELSE IF Len(input) % 4 # 0 THEN make_unexpected("invalid_length")
    ELSE decode_loop(input, decode_table(chars), 0, <<>>)

(***************************************************************************)
(* detail::stream_encoder.  process_chunk appends to result_; it is given  *)
(* the accumulated text and returns the new one.                           *)
(***************************************************************************)
RECURSIVE process_chunk_loop(_, _, _, _)
process_chunk_loop(result, chars_, chunk, i) ==
    IF ~(i < Len(chunk)) THEN result
    ELSE LET t0 == Shl(chunk[i + 1], 16)
             t1 == IF i + 1 < Len(chunk) THEN BitOr(t0, Shl(chunk[i + 2], 8)) ELSE t0
             triple == IF i + 2 < Len(chunk) THEN BitOr(t1, chunk[i + 3]) ELSE t1
             s0 == chars_[Shr(BitAnd(triple, 16515072), 18) + 1]
             s1 == chars_[Shr(BitAnd(triple, 258048), 12) + 1]
             s2 == IF i + 1 < Len(chunk)
                   THEN chars_[Shr(BitAnd(triple, 4032), 6) + 1]
                   ELSE PadChar
             s3 == IF i + 2 < Len(chunk) THEN chars_[BitAnd(triple, 63) + 1] ELSE PadChar
         IN  process_chunk_loop(result \o <<s0, s1, s2, s3>>, chars_, chunk, i + 3)

\* a plausible slip: the text of the chunk is put before the accumulated one
process_chunk_prepending(result, chars_, chunk) ==
    process_chunk_loop(<<>>, chars_, chunk, 0) \o result

\* a plausible slip: result_ is assigned, not appended to
process_chunk_overwriting(result, chars_, chunk) ==
    process_chunk_loop(<<>>, chars_, chunk, 0)

process_chunk(result, chars_, chunk) == process_chunk_loop(result, chars_, chunk, 0)

finalize(result) == result

(***************************************************************************)
(* std::ifstream::read(buffer, n) on a stream whose state is good: the     *)
(* bytes extracted, and the stream after the call.  A read that meets the  *)
(* end of the file before n bytes sets eofbit and failbit; a faulty device *)
(* sets badbit.                                                            *)
(***************************************************************************)
Min(a, b) == IF a < b THEN a ELSE b

istream_read(content, s, n, faulty) ==
    IF faulty
    THEN [bytes |-> <<>>, stream |-> [s EXCEPT !.bad = TRUE]]
    ELSE LET k == Min(n, Len(content) - s.pos)
         IN  [bytes |-> SubSeq(content, s.pos + 1, s.pos + k),
              stream |-> [pos |-> s.pos + k,
                          eof |-> k < n,
                          fail |-> k < n,
                          bad |-> FALSE]]

\* while (file && !file.eof())
loop_condition(s) == ~s.fail /\ ~s.bad /\ ~s.eof

InitStream == [pos |-> 0, eof |-> FALSE, fail |-> FALSE, bad |-> FALSE]

(***************************************************************************)
(* The inputs the model enumerates.                                        *)
(***************************************************************************)
HelloWorld == <<72, 101, 108, 108, 111, 44, 32, 87, 111, 114, 108, 100, 33>>
Inputs == SeqsUpTo(ByteVals, MaxLen) \cup {<<65>>, HelloWorld}

\* 'A', '=', '+': 'A' is in every alphabet, '+' only in some.
TextChars == {65, PadChar, 43}
\* "SGVsbG8" and "SGVs!G8=" of the tests
Texts ==
    SeqsUpTo(TextChars, MaxTextLen)
        \cup {<<83, 71, 86, 115, 98, 71, 56>>, <<83, 71, 86, 115, 33, 71, 56, 61>>}

Chunks == SeqsUpTo(StreamByteVals, MaxStreamLen)
FileContents == SeqsUpTo(StreamByteVals, MaxFileLen)
InStatus == {"ok", "missing", "size_error", "unreadable"}
Faults == {"none", "read", "write"}
ChunkSizes == 0..MaxChunkSize
MaxSizes == {SmallMaxSize, default_max_size}
OldOutput == <<88>>
OutFiles == {[exists |-> FALSE, content |-> <<>>], [exists |-> TRUE, content |-> OldOutput]}

NoResult == [ok |-> FALSE, value |-> <<>>, error |-> "none"]

RECURSIVE Flatten(_)
Flatten(ss) == IF ss = <<>> THEN <<>> ELSE Head(ss) \o Flatten(Tail(ss))

(***************************************************************************)
(* The state.                                                              *)
(***************************************************************************)
VARIABLES
    pc,          \* which call is running or has returned
    input,       \* the bytes given to base64_encode
    chars,       \* the alphabet argument of the call
    text,        \* the text given to base64_decode
    encRes,      \* what base64_encode returned
    decRes,      \* what base64_decode returned
    result_,     \* stream_encoder::result_
    chunks,      \* the chunks given to process_chunk so far, in call order
    streamRes,   \* what finalize returned
    inFile,      \* the input file: [status, content]
    outFile,     \* the output file: [exists, content]
    outOpenable, \* whether the output path can be opened for writing
    fault,       \* the device fault met by the read loop, if any
    chunk_size,  \* the chunk_size argument
    max_size,    \* the max_size argument
    stream,      \* the std::ifstream: [pos, eof, fail, bad]
    fileRes      \* what the file encoder returned

pureVars == <<input, text, encRes, decRes>>
encoderVars == <<result_, chunks, streamRes>>
fileVars == <<inFile, outFile, outOpenable, fault, chunk_size, max_size, stream, fileRes>>
vars == <<pc, chars, pureVars, encoderVars, fileVars>>

Init ==
    /\ pc = "idle"
    /\ input = <<>>
    /\ chars = <<>>
    /\ text = <<>>
    /\ encRes = NoResult
    /\ decRes = NoResult
    /\ result_ = <<>>
    /\ chunks = <<>>
    /\ streamRes = <<>>
    /\ inFile = [status |-> "missing", content |-> <<>>]
    /\ outFile = [exists |-> FALSE, content |-> <<>>]
    /\ outOpenable = TRUE
    /\ fault = "none"
    /\ chunk_size = 0
    /\ max_size = 0
    /\ stream = InitStream
    /\ fileRes = NoResult

(***************************************************************************)
(* Calls of the two pure functions.                                        *)
(***************************************************************************)
CallEncode ==
    /\ pc = "idle"
    /\ \E b \in Inputs, c \in Alphabets :
          /\ input' = b
          /\ chars' = c
          /\ encRes' = base64_encode(b, c)
    /\ pc' = "encoded"
    /\ UNCHANGED <<text, decRes, encoderVars, fileVars>>

CallDecode ==
    /\ pc = "idle"
    /\ \E t \in Texts, c \in Alphabets :
          /\ text' = t
          /\ chars' = c
          /\ decRes' = base64_decode(t, c)
    /\ pc' = "decoded"
    /\ UNCHANGED <<input, encRes, encoderVars, fileVars>>

\* base64_decode(encoded.value()) with the alphabet of the encoding
DecodeEncoded ==
    /\ pc = "encoded"
    /\ encRes.ok
    /\ text' = encRes.value
    /\ decRes' = base64_decode(encRes.value, chars)
    /\ pc' = "roundtrip"
    /\ UNCHANGED <<input, chars, encRes, encoderVars, fileVars>>

(***************************************************************************)
(* A stream_encoder driven by its caller.  The constructor does not check  *)
(* the alphabet: its callers validate it first.                            *)
(***************************************************************************)
NewStreamEncoder ==
    /\ pc = "idle"
    /\ \E c \in {a \in Alphabets : validate_charset(a)} : chars' = c
    /\ result_' = <<>>
    /\ chunks' = <<>>
    /\ pc' = "stream"
    /\ UNCHANGED <<pureVars, streamRes, fileVars>>

EmptyChunks(cs) == Cardinality({k \in 1..Len(cs) : cs[k] = <<>>})

ProcessChunk ==
    /\ pc = "stream"
    /\ \E chunk \in Chunks :
          /\ Len(Flatten(chunks)) + Len(chunk) <= MaxStreamLen
          /\ chunk = <<>> => EmptyChunks(chunks) < MaxEmptyChunks
          /\ result_' = process_chunk(result_, chars, chunk)
          /\ chunks' = Append(chunks, chunk)
    /\ UNCHANGED <<pc, chars, pureVars, streamRes, fileVars>>

Finalize ==
    /\ pc = "stream"
    /\ streamRes' = finalize(result_)
    /\ pc' = "finalized"
    /\ UNCHANGED <<chars, pureVars, result_, chunks, fileVars>>

(***************************************************************************)
(* The file system the file encoders run against.                          *)
(***************************************************************************)
SetupFiles ==
    /\ pc = "idle"
    /\ \E st \in InStatus, content \in FileContents :
          /\ st = "missing" => content = <<>>
          /\ inFile' = [status |-> st, content |-> content]
    /\ outFile' \in OutFiles
    /\ outOpenable' \in BOOLEAN
    /\ fault' \in Faults
    /\ pc' = "files"
    /\ UNCHANGED <<chars, pureVars, encoderVars, chunk_size, max_size, stream, fileRes>>

(***************************************************************************)
(* base64_encode_file.                                                     *)
(***************************************************************************)
\* the checks before the read loop: the error returned, or "success"
encode_file_checks(chars_arg, file, max) ==
    IF ~validate_charset(chars_arg)
    THEN IF Len(chars_arg) # 64 THEN "invalid_character_set_length"
         ELSE "invalid_character_set_padding_char_used"
    ELSE IF file.status = "missing" THEN "file_not_found"
    ELSE IF file.status = "size_error" THEN "io_error"
    ELSE IF Len(file.content) = 0 THEN "empty_data"
    ELSE IF Len(file.content) > max THEN "file_too_large"
    ELSE IF file.status = "unreadable" THEN "file_not_readable"
    ELSE "success"

CallEncodeFile ==
    /\ pc = "files"
    /\ \E c \in Alphabets, cs \in ChunkSizes, ms \in MaxSizes :
          /\ chars' = c
          /\ chunk_size' = cs
          /\ max_size' = ms
          /\ LET e == encode_file_checks(c, inFile, ms)
             IN  IF e # "success"
                 THEN /\ fileRes' = make_unexpected(e)
                      /\ pc' = "file_done"
                      /\ UNCHANGED <<result_, stream>>
                 ELSE /\ result_' = <<>>
                      /\ stream' = InitStream
                      /\ pc' = "file_loop"
                      /\ UNCHANGED fileRes
    /\ UNCHANGED <<pureVars, chunks, streamRes, inFile, outFile, outOpenable, fault>>

\* the test of the read loop, when it holds
EncodeFileTest ==
    /\ pc = "file_loop"
    /\ loop_condition(stream)
    /\ pc' = "file_read"
    /\ UNCHANGED <<chars, pureVars, encoderVars, fileVars>>

\* the body of the read loop
EncodeFileRead ==
    /\ pc = "file_read"
    /\ pc' = "file_loop"
    /\ LET r == istream_read(inFile.content, stream, chunk_size, fault = "read")
       IN  /\ stream' = r.stream
           /\ result_' = IF Len(r.bytes) > 0
                         THEN process_chunk(result_, chars, r.bytes)
                         ELSE result_
           /\ chunks' = IF Len(r.bytes) > 0 THEN Append(chunks, r.bytes) ELSE chunks
    /\ UNCHANGED <<chars, pureVars, streamRes, inFile, outFile, outOpenable, fault,
                   chunk_size, max_size, fileRes>>

\* after the loop: the check for read errors and the return
EncodeFileReturn ==
    /\ pc = "file_loop"
    /\ ~loop_condition(stream)
    /\ fileRes' = IF stream.bad THEN make_unexpected("io_error")
                  ELSE Expected(finalize(result_))
    /\ pc' = "file_done"
    /\ UNCHANGED <<chars, pureVars, encoderVars, inFile, outFile, outOpenable, fault,
                   chunk_size, max_size, stream>>

\* base64_decode(result.value()) with the alphabet of the encoding
DecodeFileResult ==
    /\ pc = "file_done"
    /\ fileRes.ok
    /\ text' = fileRes.value
    /\ decRes' = base64_decode(fileRes.value, chars)
    /\ pc' = "file_roundtrip"
    /\ UNCHANGED <<input, chars, encRes, encoderVars, fileVars>>

(***************************************************************************)
(* base64_encode_file_to_file.  It returns a std::error_code: fileRes      *)
(* holds it, with no value.                                                *)
(***************************************************************************)
\* the checks between the opening of the output and the read loop
encode_file_to_file_checks(chars_arg, file, max) ==
    IF ~validate_charset(chars_arg)
    THEN IF Len(chars_arg) # 64 THEN "invalid_character_set_length"
         ELSE "invalid_character_set_padding_char_used"
    ELSE IF file.status = "missing" THEN "file_not_found"
    ELSE IF file.status = "size_error" THEN "io_error"
    ELSE IF Len(file.content) = 0 THEN "empty_data"
    ELSE IF Len(file.content) > max THEN "file_too_large"
    ELSE IF file.status = "unreadable" THEN "file_not_readable"
    ELSE "success"

CallEncodeFileToFile ==
    /\ pc = "files"
    /\ \E c \in Alphabets, cs \in ChunkSizes, ms \in MaxSizes :
          /\ chars' = c
          /\ chunk_size' = cs
          /\ max_size' = ms
          /\ IF ~outOpenable
             THEN /\ fileRes' = make_unexpected("io_error")
                  /\ pc' = "f2f_done"
                  /\ UNCHANGED <<outFile, result_, stream>>
             ELSE /\ outFile' = [exists |-> TRUE, content |-> <<>>]
                  /\ LET e == encode_file_to_file_checks(c, inFile, ms)
                     IN  IF e # "success"
                         THEN /\ fileRes' = make_unexpected(e)
                              /\ pc' = "f2f_done"
                              /\ UNCHANGED <<result_, stream>>
                         ELSE /\ result_' = <<>>
                              /\ stream' = InitStream
                              /\ pc' = "f2f_loop"
                              /\ UNCHANGED fileRes
    /\ UNCHANGED <<pureVars, chunks, streamRes, inFile, outOpenable, fault>>

\* the test of the read loop, when it holds
EncodeFileToFileTest ==
    /\ pc = "f2f_loop"
    /\ loop_condition(stream)
    /\ pc' = "f2f_read"
    /\ UNCHANGED <<chars, pureVars, encoderVars, fileVars>>

\* the body of the read loop: read, process_chunk, write.  finalize()
\* returns a reference to result_ and operator<< takes it by const
\* reference, so result_ keeps its text.
EncodeFileToFileRead ==
    /\ pc = "f2f_read"
    /\ LET r == istream_read(inFile.content, stream, chunk_size, fault = "read")
           res == IF Len(r.bytes) > 0
                  THEN process_chunk(result_, chars, r.bytes)
                  ELSE result_
       IN  /\ stream' = r.stream
           /\ result_' = res
           /\ chunks' = IF Len(r.bytes) > 0 THEN Append(chunks, r.bytes) ELSE chunks
           /\ IF fault = "write"
              THEN /\ fileRes' = make_unexpected("io_error")
                   /\ pc' = "f2f_done"
                   /\ UNCHANGED outFile
              ELSE /\ outFile' = [outFile EXCEPT !.content = @ \o finalize(res)]
                   /\ pc' = "f2f_loop"
                   /\ UNCHANGED fileRes
    /\ UNCHANGED <<chars, pureVars, streamRes, inFile, outOpenable, fault,
                   chunk_size, max_size>>

EncodeFileToFileReturn ==
    /\ pc = "f2f_loop"
    /\ ~loop_condition(stream)
    /\ fileRes' = IF stream.bad THEN make_unexpected("io_error")
                  ELSE [ok |-> TRUE, value |-> <<>>, error |-> "success"]
    /\ pc' = "f2f_done"
    /\ UNCHANGED <<chars, pureVars, encoderVars, inFile, outFile, outOpenable, fault,
                   chunk_size, max_size, stream>>

Next ==
    \/ CallEncode
    \/ CallDecode
    \/ DecodeEncoded
    \/ NewStreamEncoder
    \/ ProcessChunk
    \/ Finalize
    \/ SetupFiles
    \/ CallEncodeFile
    \/ EncodeFileTest
    \/ EncodeFileRead
    \/ EncodeFileReturn
    \/ DecodeFileResult
    \/ CallEncodeFileToFile
    \/ EncodeFileToFileTest
    \/ EncodeFileToFileRead
    \/ EncodeFileToFileReturn

Spec == Init /\ [][Next]_vars

\* A call that has entered its read loop keeps running: it tests the
\* condition, runs the body when the condition holds, and returns when it
\* does not.
SpecFair ==
    /\ Spec
    /\ WF_vars(EncodeFileTest)
    /\ WF_vars(EncodeFileRead)
    /\ WF_vars(EncodeFileReturn)
    /\ WF_vars(EncodeFileToFileTest)
    /\ WF_vars(EncodeFileToFileRead)
    /\ WF_vars(EncodeFileToFileReturn)

TypeOK ==
    /\ pc \in {"idle", "encoded", "decoded", "roundtrip", "stream", "finalized",
               "files", "file_loop", "file_read", "file_done", "file_roundtrip",
               "f2f_loop", "f2f_read", "f2f_done"}
    /\ chars \in Alphabets \cup {<<>>}

(***************************************************************************)
(* The claims.                                                             *)
(***************************************************************************)

\* C1: round trip.  For every non-empty byte sequence and every alphabet
\* that passes validate_charset, base64_encode succeeds, and base64_decode
\* of the encoded text with the same alphabet succeeds and returns the
\* bytes.
C1_RoundTrip ==
    /\ (pc = "encoded" /\ input # <<>> /\ validate_charset(chars)) => encRes.ok
    /\ (pc = "roundtrip" /\ input # <<>> /\ validate_charset(chars))
          => (decRes.ok /\ decRes.value = input)

\* C2: the text returned by finalize equals base64_encode of the
\* concatenated chunks, for every split of a non-empty byte sequence into
\* chunks.
C2_StreamEqualsEncodeAnyChunks ==
    (pc = "finalized" /\ Flatten(chunks) # <<>>)
        => streamRes = base64_encode(Flatten(chunks), chars).value

\* C3: when every chunk but the last has a length that is a multiple of 3,
\* process_chunk on the chunks in order and then finalize return
\* base64_encode of the whole sequence.
C3_StreamEqualsEncodeAligned ==
    (/\ pc = "finalized"
     /\ Flatten(chunks) # <<>>
     /\ \A k \in 1..(Len(chunks) - 1) : Len(chunks[k]) % 3 = 0)
        => /\ base64_encode(Flatten(chunks), chars).ok
           /\ streamRes = base64_encode(Flatten(chunks), chars).value

C3_Witness ==
    /\ pc = "finalized"
    /\ Len(chunks) = 2
    /\ Len(chunks[1]) = 3
    /\ Len(chunks[2]) = 2
    /\ streamRes = base64_encode(Flatten(chunks), chars).value

\* C4: base64_encode emits, for the g-th group of 3 bytes packed as
\* b0*2^16 + b1*2^8 + b2 (a missing byte counts 0), the symbols of the four
\* 6-bit fields, most significant first; '=' stands for the 3rd and 4th
\* symbol of a final group of 1 byte and for the 4th of a final group of 2
\* bytes.  "A" gives "QQ==" and "Hello, World!" gives "SGVsbG8sIFdvcmxkIQ==".
C4_EncodeBitPacking ==
    (pc = "encoded" /\ input # <<>> /\ validate_charset(chars))
        => LET n == Len(input)
               out == encRes.value
               byte(k) == IF k <= n THEN input[k] ELSE 0
               packed(g) == byte(3 * g + 1) * 65536 + byte(3 * g + 2) * 256 + byte(3 * g + 3)
               field(g, j) == (packed(g) \div (2 ^ (18 - 6 * j))) % 64
           IN  /\ encRes.ok
               /\ \A g \in 0..((n - 1) \div 3) :
                     /\ Len(out) >= 4 * g + 4
                     /\ out[4 * g + 1] = chars[field(g, 0) + 1]
                     /\ out[4 * g + 2] = chars[field(g, 1) + 1]
                     /\ out[4 * g + 3] = IF 3 * g + 2 <= n THEN chars[field(g, 2) + 1]
                                         ELSE PadChar
                     /\ out[4 * g + 4] = IF 3 * g + 3 <= n THEN chars[field(g, 3) + 1]
                                         ELSE PadChar
               /\ (input = <<65>> /\ chars = base64_chars) => out = <<81, 81, 61, 61>>
               /\ (input = HelloWorld /\ chars = base64_chars)
                     => out = <<83, 71, 86, 115, 98, 71, 56, 115, 73, 70,
                                100, 118, 99, 109, 120, 107, 73, 81, 61, 61>>

C4_Witness ==
    /\ pc = "encoded"
    /\ input = HelloWorld
    /\ chars = base64_chars
    /\ encRes.ok
    /\ encRes.value[19] = PadChar

\* C5: the text base64_encode returns for n > 0 bytes has length
\* ceil(n/3)*4, a multiple of 4.
C5_EncodedLength ==
    (pc = "encoded" /\ input # <<>> /\ validate_charset(chars))
        => LET n == Len(input)
               ceil == (n \div 3) + (IF n % 3 = 0 THEN 0 ELSE 1)
           IN  /\ encRes.ok
               /\ Len(encRes.value) = ceil * 4
               /\ Len(encRes.value) % 4 = 0

C5_Witness ==
    /\ pc = "encoded"
    /\ Len(input) = 4
    /\ encRes.ok
    /\ Len(encRes.value) = 8

\* C6: the text base64_encode returns for n > 0 bytes holds exactly
\* (3 - n % 3) % 3 characters '=', and they are its last characters.
C6_PaddingCount ==
    (pc = "encoded" /\ input # <<>> /\ validate_charset(chars))
        => LET out == encRes.value
               pads == (3 - (Len(input) % 3)) % 3
           IN  /\ encRes.ok
               /\ Cardinality({k \in 1..Len(out) : out[k] = PadChar}) = pads
               /\ \A k \in 1..Len(out) : (out[k] = PadChar) <=> (k > Len(out) - pads)

C6_Witness ==
    /\ pc = "encoded"
    /\ Len(input) = 2
    /\ encRes.ok
    /\ encRes.value[4] = PadChar
    /\ encRes.value[3] # PadChar

\* C7: base64_decode returns the error of the first failing check, in the
\* order: empty input, alphabet (its length, then its '='), length of the
\* input not a multiple of 4, a symbol that is not valid.
C7_DecodeValidationOrder ==
    (pc = "decoded")
        => IF text = <<>> THEN decRes.error = "empty_data"
           ELSE IF Len(chars) # 64 THEN decRes.error = "invalid_character_set_length"
           ELSE IF PadChar \in Range(chars)
           THEN decRes.error = "invalid_character_set_padding_char_used"
           ELSE IF Len(text) % 4 # 0 THEN decRes.error = "invalid_length"
           ELSE decRes.ok \/ decRes.error = "invalid_character"

\* a text of a wrong length that holds '+', which the URL-safe alphabet lacks
C7_Witness ==
    /\ pc = "decoded"
    /\ chars = base64_chars_url_safe
    /\ Len(text) = 7
    /\ 43 \in Range(text)
    /\ decRes.error = "invalid_length"

\* C8: in the four functions that check the alphabet, an alphabet whose
\* length is not 64 yields invalid_character_set_length whether or not it
\* holds '=', once the call reaches the check of the alphabet (the input of
\* base64_encode and base64_decode is not empty, the output file of
\* base64_encode_file_to_file opens); invalid_character_set_padding_char_used
\* is returned only for an alphabet of length 64 that holds '='.
C8_AlphabetValidationOrder ==
    LET called == pc \in {"encoded", "decoded", "file_done", "f2f_done"}
        res == IF pc = "encoded" THEN encRes
               ELSE IF pc = "decoded" THEN decRes
               ELSE fileRes
        reached == IF pc = "encoded" THEN input # <<>>
                   ELSE IF pc = "decoded" THEN text # <<>>
                   ELSE IF pc = "f2f_done" THEN outOpenable
                   ELSE TRUE
    IN  called =>
           /\ (reached /\ Len(chars) # 64)
                 => (~res.ok /\ res.error = "invalid_character_set_length")
           /\ (reached /\ Len(chars) = 64 /\ PadChar \in Range(chars))
                 => (~res.ok /\ res.error = "invalid_character_set_padding_char_used")
           /\ res.error = "invalid_character_set_padding_char_used"
                 => (Len(chars) = 64 /\ PadChar \in Range(chars))

C8_Witness ==
    /\ pc = "f2f_done"
    /\ chars = chars_short_with_pad
    /\ fileRes.error = "invalid_character_set_length"

\* C9: base64_encode of an empty byte sequence returns empty_data, whatever
\* the alphabet.
C9_EmptyInputPrecedence ==
    (pc = "encoded" /\ input = <<>>) => (~encRes.ok /\ encRes.error = "empty_data")

C9_Witness ==
    /\ pc = "encoded"
    /\ input = <<>>
    /\ chars = chars_short_with_pad
    /\ encRes.error = "empty_data"

\* C10: for a non-empty text whose length is a multiple of 4 and a valid
\* alphabet, base64_decode returns invalid_character exactly when some symbol
\* is outside the alphabet and is not a '=' in the 3rd or 4th position of
\* its group of 4 (so a '=' in the 1st or 2nd position is an error), and
\* succeeds otherwise.
C10_InvalidCharacter ==
    (pc = "decoded" /\ text # <<>> /\ Len(text) % 4 = 0 /\ validate_charset(chars))
        => LET legalPad(k) == text[k] = PadChar /\ (k - 1) % 4 \in {2, 3}
               offending == \E k \in 1..Len(text) :
                               text[k] \notin Range(chars) /\ ~legalPad(k)
           IN  IF offending
               THEN ~decRes.ok /\ decRes.error = "invalid_character"
               ELSE decRes.ok

\* C11 as stated: the byte sequence base64_decode returns for an accepted
\* text of length n has length n/4*3 minus the number of '=' in the 3rd and
\* 4th positions of the final group; non-final groups never shorten it.
C11_DecodeLengthFinalGroup ==
    (pc = "decoded" /\ decRes.ok)
        => LET n == Len(text)
               pads == Cardinality({k \in {n - 1, n} : text[k] = PadChar})
           IN  Len(decRes.value) = (n \div 4) * 3 - pads

\* C11 as amended: the byte sequence base64_decode returns for an accepted
\* text of length n has length n/4*3 minus the number of '=' in the 3rd and
\* 4th positions of all its groups of 4 symbols, final or not.
C11_DecodeLengthEveryGroup ==
    (pc = "decoded" /\ decRes.ok)
        => LET n == Len(text)
               pads == Cardinality({k \in 1..n : text[k] = PadChar /\ (k - 1) % 4 \in {2, 3}})
           IN  Len(decRes.value) = (n \div 4) * 3 - pads

\* an accepted text with '=' in the first of its two groups and in the last
C11_Witness ==
    /\ pc = "decoded"
    /\ decRes.ok
    /\ Len(text) = 8
    /\ text[3] = PadChar
    /\ text[8] = PadChar
    /\ text[7] # PadChar
    /\ Len(decRes.value) = 3

\* C12: for a non-empty input file and a chunk size that is a multiple of
\* 3, the text base64_encode_file_to_file leaves in the output file is
\* base64_encode of the content of the input file, however many chunks the
\* file is read in.
C12_FileToFileEqualsEncode ==
    (pc = "f2f_done" /\ fileRes.ok /\ chunk_size > 0 /\ chunk_size % 3 = 0)
        => outFile.content = base64_encode(inFile.content, chars).value

\* C13: for every non-empty file content within max_size and every
\* chunk_size >= 1, base64_encode_file succeeds, and base64_decode of its
\* result with the same alphabet succeeds and returns the file content.
C13_ChunkSizeIndependence ==
    /\ (/\ pc = "file_done"
        /\ validate_charset(chars)
        /\ inFile.status = "ok"
        /\ fault # "read"
        /\ inFile.content # <<>>
        /\ Len(inFile.content) <= max_size
        /\ chunk_size >= 1) => fileRes.ok
    /\ (pc = "file_roundtrip" /\ fault # "read" /\ chunk_size >= 1)
          => (decRes.ok /\ decRes.value = inFile.content)

\* the concatenation, in order, of base64_encode of every non-empty chunk
RECURSIVE EncodedChunks(_, _)
EncodedChunks(cs, c) ==
    IF cs = <<>> THEN <<>>
    ELSE (IF Head(cs) = <<>> THEN <<>> ELSE base64_encode(Head(cs), c).value)
             \o EncodedChunks(Tail(cs), c)

\* C14: after any sequence of process_chunk calls on one stream_encoder the
\* accumulated text is the concatenation, in call order, of base64_encode of
\* each non-empty chunk, and its length is a multiple of 4; a call only
\* appends: the text before it is a prefix of the text after it.
C14_StreamAccumulation ==
    /\ [](pc \in {"stream", "file_loop", "file_read", "f2f_loop", "f2f_read"}
             => /\ result_ = EncodedChunks(chunks, chars)
                /\ Len(result_) % 4 = 0)
    /\ [][chunks' # chunks
             => /\ Len(result_') >= Len(result_)
                /\ SubSeq(result_', 1, Len(result_)) = result_]_vars

C14_Witness ==
    /\ pc = "stream"
    /\ Len(chunks) = 3
    /\ Len(chunks[1]) = 1
    /\ chunks[2] = <<>>
    /\ Len(chunks[3]) = 2
    /\ Len(result_) = 8
    /\ result_[3] = PadChar

\* C15: for every alphabet that passes validation, the decode table built
\* by base64_decode has exactly 64 entries that differ from the sentinel
\* 0xFF; the entry of chars[i] is i and every byte that is not a symbol of
\* the alphabet maps to the sentinel.
C15_DecodeTable ==
    (pc = "decoded" /\ text # <<>> /\ validate_charset(chars) /\ Len(text) % 4 = 0)
        => LET table == decode_table(chars)
           IN  /\ Cardinality({b \in 0..255 : table[b] # Sentinel}) = 64
               /\ \A i \in 0..63 : table[chars[i + 1]] = i
               /\ \A b \in 0..255 : b \notin Range(chars) => table[b] = Sentinel

\* C16: a call of base64_encode_file or base64_encode_file_to_file with an
\* invalid alphabet returns the alphabet error and leaves the input file and
\* the output file as they were.
C16_AlphabetBeforeFiles ==
    [][(pc = "files" /\ pc' \in {"file_done", "f2f_done"} /\ ~validate_charset(chars'))
          => /\ fileRes'.error \in {"invalid_character_set_length",
                                    "invalid_character_set_padding_char_used"}
             /\ inFile' = inFile
             /\ outFile' = outFile]_vars

\* C17: the read loop of base64_encode_file and of
\* base64_encode_file_to_file over a readable non-empty file ends, for every
\* chunk_size (0 included), and the chunks it gave to process_chunk are then
\* the bytes of the file, each once and in order.
C17_ReadLoopTerminates ==
    /\ (pc = "file_loop" /\ fault = "none")
          ~> (pc = "file_done" /\ Flatten(chunks) = inFile.content)
    /\ (pc = "f2f_loop" /\ fault = "none")
          ~> (pc = "f2f_done" /\ Flatten(chunks) = inFile.content)

====
